---- MODULE Spec2Model ----
(***************************************************************************)
(* A model of pangolin/scripts/all_snps.py: the run of                     *)
(* read_alignment_and_write_files over a small alignment.  Python strings  *)
(* that the script takes apart (SNP strings, SNP signatures, lineage       *)
(* names) are sequences of one-character strings; identifiers, which the   *)
(* script only compares, are plain strings.                                *)
(***************************************************************************)
EXTENDS Integers, Sequences, FiniteSets, TLC

\* ------------------------------------------------------------- bounds
\* Number of member records of the alignment (the reference comes on top).
NumMembers == 4
\* Columns of every sequence, after the explicit ones, in which reference and
\* members all hold the same base "T".  They make len(seq) large enough for two
\* different N counts to have the same integer part of pcent_N.
TailLen == 200

\* ------------------------------------------------------------- inputs
REFERENCE_ID == "Wuhan/WH04/2020"

Ids == <<"M1", "M2", "M3", "M4", "M5", "M6">>

\* The explicit columns of the reference: gap-free, all gaps, mixed.
Refs == { <<"A", "C">>, <<"-", "-">>, <<"A", "-">> }

\* The explicit columns of a member.
MemberSeqs == { <<"A", "C">>, <<"G", "C">>, <<"G", "N">>, <<"G", "G">> }

\* <<defining cut-off, represent cut-off>>: the defaults of parse_args, a valid
\* pair, a pair with represent > defining, and a pair outside [0, 100].
CutoffPairs == { <<90, 10>>, <<50, 10>>, <<10, 90>>, <<101, -1>> }

\* The lineages csv: members 1..k are in lineage B, k+1..u in lineage A, and the
\* members after u are missing from the file.
LineageFile(k, u) ==
    [id \in {Ids[i] : i \in 1..u} |->
        IF \E i \in 1..k : Ids[i] = id THEN <<"B">> ELSE <<"A">>]

LineageFiles ==
    { LineageFile(k, u) : k \in 0..NumMembers - 1, u \in {NumMembers - 1, NumMembers} }

\* ------------------------------------------------------------- strings
Digits == <<"0", "1", "2", "3", "4", "5", "6", "7", "8", "9">>

IsDigit(c) == \E d \in 1..10 : Digits[d] = c

DigitValue(c) == (CHOOSE d \in 1..10 : Digits[d] = c) - 1

\* str(n) of a non-negative int, as f"{index}" formats it.
RECURSIVE IntToStr(_)
IntToStr(n) ==
    IF n < 10 THEN <<Digits[n + 1]>>
    ELSE IntToStr(n \div 10) \o <<Digits[(n % 10) + 1]>>

\* int(s): the value, or -1 where Python raises ValueError.
RECURSIVE DigitsValue(_)
DigitsValue(s) ==
    IF s = <<>> THEN 0
    ELSE 10 * DigitsValue(SubSeq(s, 1, Len(s) - 1)) + DigitValue(s[Len(s)])

ParseInt(s) ==
    IF s = <<>> \/ \E i \in 1..Len(s) : ~IsDigit(s[i]) THEN -1 ELSE DigitsValue(s)

Upper(c) ==
    CASE c = "a" -> "A" [] c = "c" -> "C" [] c = "g" -> "G" [] c = "t" -> "T"
      [] c = "n" -> "N" [] OTHER -> c

Lower(c) ==
    CASE c = "A" -> "a" [] c = "C" -> "c" [] c = "G" -> "g" [] c = "T" -> "t"
      [] c = "N" -> "n" [] OTHER -> c

\* Code points of the characters a SNP string or a lineage name can hold.
CharCode(c) ==
    CASE c = "-" -> 45 [] IsDigit(c) -> 48 + DigitValue(c) [] c = ";" -> 59
      [] c = "A" -> 65 [] c = "B" -> 66 [] c = "C" -> 67 [] c = "G" -> 71
      [] c = "N" -> 78 [] c = "T" -> 84
      [] c = "a" -> 97 [] c = "c" -> 99 [] c = "g" -> 103 [] c = "n" -> 110
      [] c = "t" -> 116

\* Python's < on str.
RECURSIVE StrLess(_, _)
StrLess(a, b) ==
    IF b = <<>> THEN FALSE
    ELSE IF a = <<>> THEN TRUE
    ELSE IF a[1] # b[1] THEN CharCode(a[1]) < CharCode(b[1])
    ELSE StrLess(Tail(a), Tail(b))

\* sep.join(parts)
RECURSIVE Join(_, _)
Join(parts, sep) ==
    IF parts = <<>> THEN <<>>
    ELSE IF Len(parts) = 1 THEN parts[1]
    ELSE parts[1] \o <<sep>> \o Join(Tail(parts), sep)

\* s.split(sep): "".split(";") is [""].
RECURSIVE SplitFrom(_, _, _)
SplitFrom(s, sep, cur) ==
    IF s = <<>> THEN <<cur>>
    ELSE IF s[1] = sep THEN <<cur>> \o SplitFrom(Tail(s), sep, <<>>)
    ELSE SplitFrom(Tail(s), sep, Append(cur, s[1]))

Split(s, sep) == SplitFrom(s, sep, <<>>)

Range(s) == { s[i] : i \in 1..Len(s) }

\* sorted(seq, key=...): keys[i] is the key of seq[i]; the sort is stable.
SortedByKey(seq, keys) ==
    LET n == Len(seq)
        Pos(i) == Cardinality({ j \in 1..n :
                      keys[j] < keys[i] \/ (keys[j] = keys[i] /\ j < i) }) + 1
    IN [p \in 1..n |-> seq[CHOOSE i \in 1..n : Pos(i) = p]]

\* sorted(strs): a key that orders as StrLess does.
StrRanks(strs) ==
    [i \in 1..Len(strs) |->
        Cardinality({ j \in 1..Len(strs) : StrLess(strs[j], strs[i]) })]

\* ------------------------------------------------------------- dicts
\* A dict (insertion ordered) is a sequence of [k, v]; the defaultdict(list)
\* of the script appends to the list under a key, inserting the key if new.
DictHas(d, k) == \E i \in 1..Len(d) : d[i].k = k

DictGet(d, k) == d[CHOOSE i \in 1..Len(d) : d[i].k = k].v

DictKeys(d) == [i \in 1..Len(d) |-> d[i].k]

DictAppend(d, k, item) ==
    IF DictHas(d, k)
    THEN [i \in 1..Len(d) |-> IF d[i].k = k THEN [k |-> k, v |-> Append(d[i].v, item)]
                                            ELSE d[i]]
    ELSE Append(d, [k |-> k, v |-> <<item>>])

\* ------------------------------------------------------------- records
\* A sequence is its explicit columns followed by `tail` columns holding "T".
SeqLen(seq) == Len(seq.cols) + seq.tail

\* find_snps(ref, member).  In a tail column reference and member hold the same
\* base, so the test of line 84 fails there and the walk over the explicit
\* columns yields every snp.
RECURSIVE FindSnpsFrom(_, _, _, _)
FindSnpsFrom(ref, member, i, index) ==
    IF i > Len(ref) THEN <<>>
    ELSE LET idx == IF ref[i] # "-" THEN index + 1 ELSE index
             rest == FindSnpsFrom(ref, member, i + 1, idx)
         IN IF ref[i] # member[i] /\ Lower(member[i]) \in {"a", "g", "t", "c", "-"}
            THEN <<IntToStr(idx) \o <<Upper(ref[i]), Upper(member[i])>>>> \o rest
            ELSE rest

FindSnps(ref, member) == FindSnpsFrom(ref.cols, member.cols, 1, 0)

\* x[:-2]
DropLast2(x) == IF Len(x) <= 2 THEN <<>> ELSE SubSeq(x, 1, Len(x) - 2)

\* int(x[:-2]), the sort key of snp_list_to_snp_string.
SnpPosition(x) == ParseInt(DropLast2(x))

\* snp_list_to_snp_string(snp_list): ok is FALSE where int() raises ValueError.
SnpListToSnpString(snp_list) ==
    LET keys == [i \in 1..Len(snp_list) |-> SnpPosition(snp_list[i])]
    IN IF \E i \in 1..Len(snp_list) : keys[i] = -1
       THEN [ok |-> FALSE, str |-> <<>>]
       ELSE [ok |-> TRUE, str |-> Join(SortedByKey(snp_list, keys), ";")]

\* get_N_content(seq): the percentage (num_N*100)/len(seq), kept as a fraction.
GetNContent(seq) ==
    LET num_N == Cardinality({ i \in 1..Len(seq.cols) : Upper(seq.cols[i]) = "N" })
    IN [num |-> num_N * 100, den |-> SeqLen(seq)]

PcentLess(a, b) == a.num * b.den < b.num * a.den

\* int(pcent_N)
PcentInt(a) == a.num \div a.den

\* get_reference(alignment)
GetReference(alignment) ==
    alignment[CHOOSE i \in 1..Len(alignment) :
        /\ alignment[i].id = REFERENCE_ID
        /\ \A j \in 1..i - 1 : alignment[j].id # REFERENCE_ID]

\* add_N_annotation followed by add_snps_annotation: every record of the
\* alignment, the reference included, gets pcent_N, snps and snp_string.
Annotated(alignment) ==
    LET reference == GetReference(alignment)
    IN [i \in 1..Len(alignment) |->
          LET snps == FindSnps(reference.seq, alignment[i].seq)
          IN [id |-> alignment[i].id, seq |-> alignment[i].seq,
              pcent_N |-> GetNContent(alignment[i].seq),
              snps |-> snps,
              snp_string |-> SnpListToSnpString(snps).str]]

\* Mutant: the records of a lineage are left in alignment order.
SortedByN_Unsorted(records) == records

\* sorted(records, key=pcent_N), line 65.
SortedByN(records) ==
    SortedByKey(records,
        [i \in 1..Len(records) |->
            Cardinality({ j \in 1..Len(records) :
                PcentLess(records[j].pcent_N, records[i].pcent_N) })])

\* lineages_records of get_lineage_dict: the records of the csv, by lineage,
\* in alignment order, the reference left out.
RECURSIVE LineagesRecords(_, _, _)
LineagesRecords(alignment, csv, i) ==
    IF i = 0 THEN <<>>
    ELSE LET d == LineagesRecords(alignment, csv, i - 1)
             record == alignment[i]
         IN IF record.id # REFERENCE_ID /\ record.id \in DOMAIN csv
            THEN DictAppend(d, csv[record.id], record)
            ELSE d

\* get_lineage_dict(alignment, lineage_file)
GetLineageDict(alignment, csv) ==
    LET lineages_records == LineagesRecords(alignment, csv, Len(alignment))
    IN [i \in 1..Len(lineages_records) |->
          [k |-> lineages_records[i].k, v |-> SortedByN(lineages_records[i].v)]]

\* sorted(lineages_dict), line 269.
SortedLineages(d) == SortedByKey(DictKeys(d), StrRanks(DictKeys(d)))

\* get_ids_in_list_of_records(records)
GetIdsInListOfRecords(records) == [i \in 1..Len(records) |-> records[i].id]

\* snp_counter of lines 273-280: each snp of each record appends the record id.
RECURSIVE CountSnps(_, _, _)
CountSnps(d, id, snps) ==
    IF snps = <<>> THEN d
    ELSE CountSnps(DictAppend(d, Head(snps), id), id, Tail(snps))

RECURSIVE SnpCounter(_, _)
SnpCounter(records, i) ==
    IF i = 0 THEN <<>>
    ELSE CountSnps(SnpCounter(records, i - 1), records[i].id, records[i].snps)

\* lineage_snps of line 282: (id, pcent_N) by snp_string.
RECURSIVE LineageSnps(_, _)
LineageSnps(records, i) ==
    IF i = 0 THEN <<>>
    ELSE DictAppend(LineageSnps(records, i - 1), records[i].snp_string,
                    <<records[i].id, records[i].pcent_N>>)

\* get_singleton_snps(lineage, snp_counter)
RECURSIVE GetSingletonSnps(_, _)
GetSingletonSnps(lin, counter) ==
    IF counter = <<>> THEN <<>>
    ELSE (IF Len(Head(counter).v) = 1
          THEN <<<<lin, Head(counter).k, Head(counter).v[1]>>>>
          ELSE <<>>)
         \o GetSingletonSnps(lin, Tail(counter))

\* get_inclusion_pcent: (100*num_taxa_with_snp)/total_in_lineage, as a fraction.
GetInclusionPcent(snp, counter, total_in_lineage) ==
    [num |-> 100 * Len(DictGet(counter, snp)), den |-> total_in_lineage]

\* inclusion_pcent > cut_off
PcentExceeds(pcent, cut_off) == pcent.num > cut_off * pcent.den

\* The sub-sequence of the snps of the counter that pass Keep, in dict order.
RECURSIVE FilterKeys(_, _)
FilterKeys(counter, keep) ==
    IF counter = <<>> THEN <<>>
    ELSE (IF Head(counter).k \in keep THEN <<Head(counter).k>> ELSE <<>>)
         \o FilterKeys(Tail(counter), keep)

\* get_represented_and_defining_snps
GetRepresentedAndDefiningSnps(sing, counter, records, def_cut_off, rep_cut_off) ==
    LET total_in_lineage == Len(records)
        NotSingleton == { counter[i].k : i \in 1..Len(counter) } \
                        { sing[i][2] : i \in 1..Len(sing) }
        Over(cut) == { snp \in NotSingleton :
            PcentExceeds(GetInclusionPcent(snp, counter, total_in_lineage), cut) }
    IN [defining |-> FilterKeys(counter, Over(def_cut_off)),
        flagged |-> FilterKeys(counter, Over(rep_cut_off))]

\* ------------------------------------------------------------- selection
\* Lines 199-206 for one record: every snp of the record whose id is lowest_N
\* appends `snp` to represented, and the record joins taxa once.
AddLowestN(st, snp, record, lowest_N) ==
    IF record.id # lowest_N \/ record.snps = <<>> THEN st
    ELSE [represented |-> st.represented \o [i \in 1..Len(record.snps) |-> snp],
          taxa |-> IF record.id \in Range(GetIdsInListOfRecords(st.taxa))
                   THEN st.taxa
                   ELSE Append(st.taxa, record)]

RECURSIVE ScanRecords(_, _, _, _)
ScanRecords(st, snp, records, lowest_N) ==
    IF records = <<>> THEN st
    ELSE ScanRecords(AddLowestN(st, snp, Head(records), lowest_N), snp,
                     Tail(records), lowest_N)

\* Mutant: only the first snp of a snp_set is looked at.
CoverSnps_FirstOnly(st, snps, flagged_snps, records, lowest_N) ==
    IF snps = <<>> THEN st
    ELSE IF Head(snps) \in Range(flagged_snps) /\ Head(snps) \notin Range(st.represented)
    THEN ScanRecords([st EXCEPT !.represented = Append(@, Head(snps))],
                     Head(snps), records, lowest_N)
    ELSE st

\* Lines 194-206: the snps of one snp_set.
RECURSIVE CoverSnps(_, _, _, _, _)
CoverSnps(st, snps, flagged_snps, records, lowest_N) ==
    IF snps = <<>> THEN st
    ELSE LET snp == Head(snps)
             st1 == IF snp \in Range(flagged_snps) /\ snp \notin Range(st.represented)
                    THEN ScanRecords([st EXCEPT !.represented = Append(@, snp)],
                                     snp, records, lowest_N)
                    ELSE st
         IN CoverSnps(st1, Tail(snps), flagged_snps, records, lowest_N)

\* sorted(lineage_snps[snp_set], key=int(pcent_N))[0][0], lines 189-190.
LowestN(group) ==
    SortedByKey(group, [i \in 1..Len(group) |-> PcentInt(group[i][2])])[1][1]

\* Mutant: the snp_sets are taken in ascending order, as sorted(lineage_snps) would.
VisitOrder_Sorted(groups) == SortedByKey(DictKeys(groups), StrRanks(DictKeys(groups)))

\* The order in which line 187 yields the keys of lineage_snps.
VisitOrder(groups) == DictKeys(groups)

RECURSIVE VisitGroups(_, _, _, _, _)
VisitGroups(st, order, groups, flagged_snps, records) ==
    IF order = <<>> THEN st
    ELSE VisitGroups(CoverSnps(st, Split(Head(order), ";"), flagged_snps, records,
                               LowestN(DictGet(groups, Head(order)))),
                     Tail(order), groups, flagged_snps, records)

\* get_representative_taxa(lineage, lineage_snps, lineages_dict, flagged)
GetRepresentativeTaxa(groups, records, flagged_snps) ==
    VisitGroups([represented |-> <<>>, taxa |-> <<>>], VisitOrder(groups), groups,
                flagged_snps, records).taxa

\* pad_taxa_to_5(taxa, lineages_dict, lineage)
RECURSIVE PadFrom(_, _)
PadFrom(t, records) ==
    IF records = <<>> THEN t
    ELSE PadFrom(IF Len(t) < 3 /\ Head(records).id \notin Range(GetIdsInListOfRecords(t))
                 THEN Append(t, Head(records))
                 ELSE t,
                 Tail(records))

\* Mutant: the padding takes the first records without looking at taxa_ids.
PadTaxaTo5_NoSkip(t, records) ==
    IF Len(t) < 3
    THEN t \o SubSeq(records, 1, IF Len(records) < 3 - Len(t) THEN Len(records)
                                                              ELSE 3 - Len(t))
    ELSE t

PadTaxaTo5(t, records) == IF Len(t) < 3 THEN PadFrom(t, records) ELSE t

\* set.intersection(*[set(x.split(";")) for x in lineage_snps]), line 302.
SignatureIntersection(groups) ==
    LET sets == { Range(Split(groups[i].k, ";")) : i \in 1..Len(groups) }
    IN { x \in UNION sets : \A S \in sets : x \in S }

\* Mutant: the cut-off based list wins over the intersection.
DefiningSnps_CutoffFirst(common, defining_list) ==
    IF defining_list = <<>> THEN common ELSE defining_list

\* Lines 302-306: the intersection, or the defining list if it is empty.
DefiningSnps(common, defining_list) ==
    IF common = <<>> THEN defining_list ELSE common

\* list(a set): the order of iteration of a set of str is not fixed.
ListsOf(S) ==
    { l \in [1..Cardinality(S) -> S] : \A i, j \in 1..Cardinality(S) : l[i] = l[j] => i = j }

\* ------------------------------------------------------------- state
VARIABLES
    pc,                     \* where read_alignment_and_write_files stands
    err,                    \* the exception that ended the run, or "none"
    def_cutoff,             \* args.def_cutoff
    rep_cutoff,             \* args.rep_cutoff
    aln,                    \* the alignment, a sequence of records
    lineages_dict,          \* lineage -> records sorted by pcent_N
    todo,                   \* the lineages the loop of line 269 has yet to take
    lineage,                \* the loop variable of line 269
    snp_counter,            \* snp -> ids, of the current lineage
    lineage_snps,           \* snp_string -> (id, pcent_N), of the current lineage
    singletons,             \* line 286
    defining,               \* line 291
    flagged,                \* line 291
    rep_taxa,               \* what get_representative_taxa returned, line 294
    taxa,                   \* what pad_taxa_to_5 returned, line 296
    defining_snps,          \* lines 302-306
    to_mask,                \* line 266
    lineage_defining_snps,  \* line 267
    outfile,                \* the rows of --representative-seqs-out
    mask_out,               \* the rows of --mask-out
    defining_out            \* the rows of --defining-snps-out

vars == <<pc, err, def_cutoff, rep_cutoff, aln, lineages_dict, todo, lineage,
          snp_counter, lineage_snps, singletons, defining, flagged, rep_taxa, taxa,
          defining_snps, to_mask, lineage_defining_snps, outfile, mask_out,
          defining_out>>

locals == <<lineage, snp_counter, lineage_snps, singletons, defining, flagged,
            rep_taxa, taxa, defining_snps>>

\* A name that is not bound yet.
None == <<>>

Init ==
    /\ pc = "start"
    /\ err = "none"
    /\ def_cutoff = None
    /\ rep_cutoff = None
    /\ aln = None
    /\ lineages_dict = None
    /\ todo = None
    /\ lineage = None
    /\ snp_counter = None
    /\ lineage_snps = None
    /\ singletons = None
    /\ defining = None
    /\ flagged = None
    /\ rep_taxa = None
    /\ taxa = None
    /\ defining_snps = None
    /\ to_mask = None
    /\ lineage_defining_snps = None
    /\ outfile = None
    /\ mask_out = None
    /\ defining_out = None

\* parse_args: both cut-offs are floats, and no range is asked of them.
ParseArgs(pair) == [def_cutoff |-> pair[1], rep_cutoff |-> pair[2]]

\* 0 <= represent cut-off <= defining cut-off <= 100
CutoffsValid(d, r) == 0 <= r /\ r <= d /\ d <= 100

\* Mutant: cut-offs that are not valid end the run before anything is read.
Start_Validating ==
    /\ pc = "start"
    /\ \E pair \in CutoffPairs :
          /\ def_cutoff' = ParseArgs(pair).def_cutoff
          /\ rep_cutoff' = ParseArgs(pair).rep_cutoff
          /\ IF CutoffsValid(pair[1], pair[2])
             THEN pc' = "reading" /\ err' = err /\ outfile' = << <<"lineage", "name">> >>
             ELSE pc' = "raised" /\ err' = "SystemExit" /\ outfile' = outfile
    /\ UNCHANGED <<aln, lineages_dict, todo, locals, to_mask,
                   lineage_defining_snps, mask_out, defining_out>>

\* Lines 316-336: the arguments are parsed and the representatives file opened.
Start ==
    /\ pc = "start"
    /\ \E pair \in CutoffPairs :
          /\ def_cutoff' = ParseArgs(pair).def_cutoff
          /\ rep_cutoff' = ParseArgs(pair).rep_cutoff
    /\ outfile' = << <<"lineage", "name">> >>
    /\ pc' = "reading"
    /\ UNCHANGED <<err, aln, lineages_dict, todo, locals, to_mask,
                   lineage_defining_snps, mask_out, defining_out>>

\* The alignment file: the reference, then NumMembers members.
AlignmentFile(ref, members) ==
    << [id |-> REFERENCE_ID, seq |-> [cols |-> ref, tail |-> TailLen]] >>
    \o [i \in 1..NumMembers |->
          [id |-> Ids[i], seq |-> [cols |-> members[i], tail |-> TailLen]]]

\* Lines 254-262: the alignment is read and annotated.
ReadAndAnnotate ==
    /\ pc = "reading"
    /\ \E ref \in Refs, members \in [1..NumMembers -> MemberSeqs] :
          aln' = Annotated(AlignmentFile(ref, members))
    /\ pc' = "annotated"
    /\ UNCHANGED <<err, def_cutoff, rep_cutoff, lineages_dict, todo, locals, to_mask,
                   lineage_defining_snps, outfile, mask_out, defining_out>>

\* Lines 264-269: the records are put by lineage, and the loop is set up.
MakeLineagesDict ==
    /\ pc = "annotated"
    /\ \E csv \in LineageFiles :
          /\ lineages_dict' = GetLineageDict(aln, csv)
          /\ todo' = SortedLineages(lineages_dict')
    /\ to_mask' = <<>>
    /\ lineage_defining_snps' = <<>>
    /\ pc' = "loop"
    /\ UNCHANGED <<err, def_cutoff, rep_cutoff, aln, locals, outfile, mask_out,
                   defining_out>>

\* Lines 269-310: one turn of the loop over the lineages.
ProcessLineage ==
    /\ pc = "loop"
    /\ todo # <<>>
    /\ LET lin == Head(todo)
           records == DictGet(lineages_dict, lin)
           counter == SnpCounter(records, Len(records))
           groups == LineageSnps(records, Len(records))
           sing == GetSingletonSnps(lin, counter)
           both == GetRepresentedAndDefiningSnps(sing, counter, records,
                                                 def_cutoff, rep_cutoff)
           reps == GetRepresentativeTaxa(groups, records, both.flagged)
           padded == PadTaxaTo5(reps, records)
       IN /\ lineage' = lin
          /\ todo' = Tail(todo)
          /\ snp_counter' = counter
          /\ lineage_snps' = groups
          /\ singletons' = sing
          /\ to_mask' = to_mask \o sing
          /\ defining' = both.defining
          /\ flagged' = both.flagged
          /\ rep_taxa' = reps
          /\ taxa' = padded
          /\ outfile' = outfile \o [i \in 1..Len(padded) |-> <<lin, padded[i].id>>]
          /\ \E common \in ListsOf(SignatureIntersection(groups)) :
                LET dsnps == DefiningSnps(common, both.defining)
                    lineage_str == SnpListToSnpString(dsnps)
                IN /\ defining_snps' = dsnps
                   /\ IF lineage_str.ok
                      THEN /\ lineage_defining_snps' =
                                Append(lineage_defining_snps, <<lin, lineage_str.str>>)
                           /\ UNCHANGED <<pc, err>>
                      ELSE /\ pc' = "raised"
                           /\ err' = "ValueError"
                           /\ UNCHANGED lineage_defining_snps
    /\ UNCHANGED <<def_cutoff, rep_cutoff, aln, lineages_dict, mask_out, defining_out>>

\* Lines 312 and 338-351: get_all_snps returns and the two other files are written.
WriteFiles ==
    /\ pc = "loop"
    /\ todo = <<>>
    /\ mask_out' = << <<"lineage", "snp", "taxon">> >> \o to_mask
    /\ defining_out' = << <<"lineage", "defining_snps">> >> \o lineage_defining_snps
    /\ pc' = "done"
    /\ UNCHANGED <<err, def_cutoff, rep_cutoff, aln, lineages_dict, todo, locals,
                   to_mask, lineage_defining_snps, outfile>>

Next ==
    \/ Start
    \/ ReadAndAnnotate
    \/ MakeLineagesDict
    \/ ProcessLineage
    \/ WriteFiles

Spec == Init /\ [][Next]_vars

\* ------------------------------------------------------------- properties
\* The locals of the loop hold the results of a lineage.
Processed == lineage # None

\* The members of the lineage the locals belong to, in their sorted order.
Members == DictGet(lineages_dict, lineage)

\* The SNP events found in the members of the lineage.
Events == UNION { Range(Members[i].snps) : i \in 1..Len(Members) }

\* The members whose own SNP list holds the event.
Carriers(snp) == { Members[i].id : i \in { j \in 1..Len(Members) : snp \in Range(Members[j].snps) } }

\* The events every member's own SNP list holds.
InEveryMember == { snp \in Events : Cardinality(Carriers(snp)) = Len(Members) }

\* The entries of the occurrence index that are no singleton and whose
\* inclusion percentage is strictly above the cut-off.
OverCutoff(cut_off) ==
    { snp_counter[i].k : i \in { j \in 1..Len(snp_counter) :
          /\ Len(snp_counter[j].v) # 1
          /\ 100 * Len(snp_counter[j].v) > cut_off * Len(Members) } }

\* The SNP strings of a defining_snps field.
SnpsOfString(str) == IF str = <<>> THEN {} ELSE Range(Split(str, ";"))

\* The defining-SNP row written last.
LastRow == lineage_defining_snps[Len(lineage_defining_snps)]

AlnIndex(id) == CHOOSE i \in 1..Len(aln) : aln[i].id = id

MemberIndex(id) == CHOOSE i \in 1..Len(Members) : Members[i].id = id

IsAscending(strs) == \A i \in 1..Len(strs) - 1 : StrLess(strs[i], strs[i + 1])

\* C1: after get_representative_taxa and pad_taxa_to_5 the list of a lineage
\* has at least min(3, number of members) entries and no identifier twice.
C1_FloorAndNoDuplicate ==
    Processed =>
        /\ Len(taxa) >= (IF Len(Members) < 3 THEN Len(Members) ELSE 3)
        /\ \A i, j \in 1..Len(taxa) : taxa[i].id = taxa[j].id => i = j

\* C1 witness: a lineage of four members whose selection chose one record and
\* whose padding stopped at three.
C1_Witness ==
    /\ Processed
    /\ Len(Members) = 4
    /\ Len(rep_taxa) = 1
    /\ Len(taxa) = 3

\* C2: every representable SNP (not a singleton, inclusion percentage above the
\* represent cut-off) is in the own SNP list of a record of the final list; the
\* selection alone already covers it, and the final list keeps the selection.
C2_RepresentableCovered ==
    Processed =>
        /\ \A snp \in OverCutoff(rep_cutoff) :
              /\ \E i \in 1..Len(rep_taxa) : snp \in Range(rep_taxa[i].snps)
              /\ \E i \in 1..Len(taxa) : snp \in Range(taxa[i].snps)
        /\ Len(rep_taxa) <= Len(taxa)
        /\ SubSeq(taxa, 1, Len(rep_taxa)) = rep_taxa

\* C2 witness: two representable SNPs, the second covered by a second record.
C2_Witness ==
    /\ Processed
    /\ Cardinality(OverCutoff(rep_cutoff)) >= 2
    /\ Len(rep_taxa) = 2
    /\ \E snp \in OverCutoff(rep_cutoff) : snp \notin Range(rep_taxa[1].snps)

\* C3: an event is a singleton (a mask row naming its carrier) if and only if
\* exactly one member of the lineage has it in its SNP list.
C3_SingletonIffOneCarrier ==
    Processed =>
        \A snp \in Events :
            (\E i \in 1..Len(singletons) :
                /\ singletons[i][2] = snp
                /\ Carriers(snp) = {singletons[i][3]})
            <=> Cardinality(Carriers(snp)) = 1

C4_FallbackReached ==
    /\ Processed
    /\ Events # {}
    /\ InEveryMember = {}
    /\ OverCutoff(def_cutoff) # {}
    /\ pc = "loop"

\* C5: the run never raises, and ends with one defining-SNP row per lineage in
\* ascending order of the names, the row of a lineage whose members have no SNP
\* holding the empty string.
C5_CompletesOneRowPerLineage ==
    /\ pc # "raised"
    /\ pc = "done" =>
          /\ [i \in 1..Len(lineage_defining_snps) |-> lineage_defining_snps[i][1]]
                = SortedLineages(lineages_dict)
          /\ \A i \in 1..Len(lineage_defining_snps) :
                (\A r \in Range(DictGet(lineages_dict, lineage_defining_snps[i][1])) :
                    r.snps = <<>>)
                => lineage_defining_snps[i][2] = <<>>

\* C6: the positions of the list find_snps returns are strictly ascending.
C6_StrictlyAscendingPositions ==
    pc \notin {"start", "reading"} =>
        \A r \in 1..Len(aln) :
            \A i \in 1..Len(aln[r].snps) - 1 :
                SnpPosition(aln[r].snps[i]) < SnpPosition(aln[r].snps[i + 1])

\* C7, as claimed: with cut-offs that are not valid no lineage is classified and
\* no mask, defining-SNP or representative row is produced.
C7_InvalidCutoffsAbort ==
    (pc # "start" /\ ~CutoffsValid(def_cutoff, rep_cutoff)) =>
        /\ lineage = None
        /\ to_mask = <<>>
        /\ lineage_defining_snps = <<>>
        /\ Len(outfile) <= 1

\* C7, amended: the cut-offs are not validated.  With cut-offs that are not
\* valid the run goes on as with any others: a lineage is classified with the
\* cut-offs as given, a run that raises raises the ValueError of line 308 on a
\* lineage whose members have no SNP, after its representative rows were
\* written, and a run that ends has a defining-SNP row for every lineage.
C7_CutoffsNotValidated ==
    (pc # "start" /\ ~CutoffsValid(def_cutoff, rep_cutoff)) =>
        /\ Processed =>
              /\ Range(flagged) = OverCutoff(rep_cutoff)
              /\ Range(defining) = OverCutoff(def_cutoff)
        /\ pc = "raised" =>
              /\ err = "ValueError"
              /\ Processed
              /\ Events = {}
              /\ Len(outfile) > 1
        /\ pc = "done" =>
              /\ err = "none"
              /\ Len(lineage_defining_snps) = Len(lineages_dict)
              /\ Len(defining_out) = Len(lineages_dict) + 1

\* C7 witness: a run with represent cut-off above defining cut-off ends with
\* mask rows, two defining-SNP rows and representative rows.
C7_Witness ==
    /\ pc = "done"
    /\ rep_cutoff > def_cutoff
    /\ Len(mask_out) > 1
    /\ Len(defining_out) = 3
    /\ Len(outfile) > 3
    /\ flagged # <<>>

\* C8: a record the selection added has the lowest pcent_N of the members
\* with its SNP signature, and among those of equal pcent_N it comes first in
\* the alignment.
C8_LowestNOfGroup ==
    Processed =>
        \A i \in 1..Len(rep_taxa) :
            \A j \in 1..Len(Members) :
                (Members[j].snp_string = rep_taxa[i].snp_string
                 /\ Members[j].id # rep_taxa[i].id) =>
                    \/ PcentLess(rep_taxa[i].pcent_N, Members[j].pcent_N)
                    \/ /\ rep_taxa[i].pcent_N = Members[j].pcent_N
                       /\ AlnIndex(rep_taxa[i].id) < AlnIndex(Members[j].id)

\* C8 witness: the record added comes after a record of its group in the
\* alignment whose pcent_N is higher and has the same integer part.
C8_Witness ==
    /\ Processed
    /\ \E i \in 1..Len(rep_taxa) :
          \E j \in 1..Len(Members) :
              /\ Members[j].snp_string = rep_taxa[i].snp_string
              /\ PcentLess(rep_taxa[i].pcent_N, Members[j].pcent_N)
              /\ PcentInt(rep_taxa[i].pcent_N) = PcentInt(Members[j].pcent_N)
              /\ AlnIndex(Members[j].id) < AlnIndex(rep_taxa[i].id)

\* The distinct values of a sequence, in the order in which they first appear.
RECURSIVE FirstAppearances(_)
FirstAppearances(strs) ==
    IF strs = <<>> THEN <<>>
    ELSE LET front == FirstAppearances(SubSeq(strs, 1, Len(strs) - 1))
         IN IF strs[Len(strs)] \in Range(front) THEN front
            ELSE Append(front, strs[Len(strs)])

\* C9, as claimed: the signature groups are visited in ascending order of the
\* SNP-signature strings.
C9_VisitsInSignatureOrder ==
    Processed => IsAscending(VisitOrder(lineage_snps))

\* C9, amended: the signature groups are visited in the order in which the
\* signatures first appear in the member list of the lineage (sorted by
\* pcent_N), so the records of the list before padding stand in that order.
C9_VisitsInMemberOrder ==
    Processed =>
        /\ VisitOrder(lineage_snps) =
              FirstAppearances([i \in 1..Len(Members) |-> Members[i].snp_string])
        /\ \A i \in 1..Len(rep_taxa) - 1 :
              MemberIndex(rep_taxa[i].id) < MemberIndex(rep_taxa[i + 1].id)

\* C9 witness: two groups add a record each, visited against the ascending
\* order of their signatures.
C9_Witness ==
    /\ Processed
    /\ Len(rep_taxa) = 2
    /\ StrLess(rep_taxa[2].snp_string, rep_taxa[1].snp_string)

\* C10: no SNP is both in a mask row of a lineage and in its defining-SNP row.
C10_MaskAndDefiningDisjoint ==
    (Processed /\ pc # "raised") =>
        { singletons[i][2] : i \in 1..Len(singletons) }
            \cap SnpsOfString(LastRow[2]) = {}

====
